---- MODULE Spec2Model ----
(***************************************************************************)
(* A model of the WrestleStat crawl pipeline of src/scraper.py:            *)
(* get_all_d1_teams, get_team_roster, scrape_wrestler_matches,             *)
(* scrape_team_matches and the orchestrator scrape_all_d1_teams.           *)
(*                                                                         *)
(* Text is modelled as a sequence of one-character strings, so that        *)
(* strip, split and the regular expressions of the source are computed     *)
(* character by character.  A parsed HTML document is modelled by the      *)
(* structure BeautifulSoup hands to the code: blocks, tables, rows, cells. *)
(***************************************************************************)
EXTENDS Integers, Sequences, FiniteSets, TLC

\* ------------------------------------------------------------------------
\* Text helpers (Python str methods and the re patterns used by the source)
\* ------------------------------------------------------------------------

Digits == {"0", "1", "2", "3", "4", "5", "6", "7", "8", "9"}

Whitespace == {" "}

IsDigit(c) == c \in Digits

IsSpace(c) == c \in Whitespace

\* s[i..] (1-based), the empty text when i is past the end
Tail_(s, i) == IF i > Len(s) THEN <<>> ELSE SubSeq(s, i, Len(s))

\* index of the first character of s at or after i that is not in cs
RECURSIVE SkipWhile(_, _, _)
SkipWhile(s, i, cs) ==
    IF i <= Len(s) /\ s[i] \in cs THEN SkipWhile(s, i + 1, cs) ELSE i

\* index of the last character of s at or before i that is not in cs
RECURSIVE SkipBack(_, _, _)
SkipBack(s, i, cs) ==
    IF i >= 1 /\ s[i] \in cs THEN SkipBack(s, i - 1, cs) ELSE i

\* str.strip(chars)
StripChars(s, cs) ==
    LET a == SkipWhile(s, 1, cs)
        b == SkipBack(s, Len(s), cs)
    IN  IF a > b THEN <<>> ELSE SubSeq(s, a, b)

\* str.strip()
Strip(s) == StripChars(s, Whitespace)

\* index of the first occurrence of c in s at or after i, 0 when absent
RECURSIVE IndexOf(_, _, _)
IndexOf(s, c, i) ==
    IF i > Len(s) THEN 0
    ELSE IF s[i] = c THEN i ELSE IndexOf(s, c, i + 1)

Contains(s, c) == IndexOf(s, c, 1) # 0

\* str.split(c): the list of pieces between the occurrences of c
RECURSIVE Split(_, _)
Split(s, c) ==
    LET k == IndexOf(s, c, 1)
    IN  IF k = 0 THEN <<s>>
        ELSE <<SubSeq(s, 1, k - 1)>> \o Split(Tail_(s, k + 1), c)

\* int(text) succeeds: optional surrounding whitespace, then decimal digits
IsIntText(s) ==
    LET t == Strip(s)
    IN  /\ t # <<>>
        /\ \A i \in 1..Len(t) : IsDigit(t[i])

DigitValue(c) ==
    CASE c = "0" -> 0 [] c = "1" -> 1 [] c = "2" -> 2 [] c = "3" -> 3
      [] c = "4" -> 4 [] c = "5" -> 5 [] c = "6" -> 6 [] c = "7" -> 7
      [] c = "8" -> 8 [] c = "9" -> 9

DigitChar(d) ==
    CASE d = 0 -> "0" [] d = 1 -> "1" [] d = 2 -> "2" [] d = 3 -> "3"
      [] d = 4 -> "4" [] d = 5 -> "5" [] d = 6 -> "6" [] d = 7 -> "7"
      [] d = 8 -> "8" [] d = 9 -> "9"

\* int(text) for a text IsIntText accepts
RECURSIVE IntOfDigits(_, _)
IntOfDigits(t, acc) ==
    IF t = <<>> THEN acc
    ELSE IntOfDigits(Tail(t), 10 * acc + DigitValue(Head(t)))

ParseInt(s) == IntOfDigits(Strip(s), 0)

\* str(n) for a natural number n
RECURSIVE StrOfInt(_)
StrOfInt(n) ==
    IF n < 10 THEN <<DigitChar(n)>>
    ELSE StrOfInt(n \div 10) \o <<DigitChar(n % 10)>>

\* re.sub(r"^#\d+\s*", "", s): a leading rank token is removed
StripLeadingRank(s) ==
    IF Len(s) >= 2 /\ s[1] = "#" /\ IsDigit(s[2])
    THEN Tail_(s, SkipWhile(s, SkipWhile(s, 2, Digits), Whitespace))
    ELSE s

\* re.sub(r"\(.*?\)|#\d+\s*", "", s): every parenthetical annotation and
\* every rank token is removed, scanning left to right
RECURSIVE StripAnnotations(_)
StripAnnotations(s) ==
    IF s = <<>> THEN <<>>
    ELSE IF s[1] = "(" /\ IndexOf(s, ")", 2) # 0
         THEN StripAnnotations(Tail_(s, IndexOf(s, ")", 2) + 1))
    ELSE IF Len(s) >= 2 /\ s[1] = "#" /\ IsDigit(s[2])
         THEN StripAnnotations(
                  Tail_(s, SkipWhile(s, SkipWhile(s, 2, Digits), Whitespace)))
    ELSE <<s[1]>> \o StripAnnotations(Tail(s))

\* ------------------------------------------------------------------------
\* Match History Extractor: scrape_wrestler_matches
\* ------------------------------------------------------------------------

Unlisted == <<"U", "n", "l", "i", "s", "t", "e", "d">>

\* the number of <td> cells a match row must have
MatchColumns == 9

\* the text columns of a Match (Opponent ID and Wrestler ID are integers)
TextFields ==
    {"Season", "Date", "Event", "WeightClass", "Result", "ResultType", "Score",
     "Opponent", "OpponentRecord", "OpponentSchool", "Wrestler"}

\* name_no_rank -> "First Last" when it holds a comma, else unchanged
CleanOpponentName(opponent_raw_name) ==
    LET name_no_rank == StripLeadingRank(opponent_raw_name)
        k == IndexOf(name_no_rank, ",", 1)
    IN  IF k # 0
        THEN LET last  == Strip(SubSeq(name_no_rank, 1, k - 1))
                 first == Strip(Tail_(name_no_rank, k + 1))
             IN  first \o <<" ">> \o last
        ELSE name_no_rank

\* cols[2].text.strip() with annotations and rank tokens removed
CleanSchool(raw) == Strip(StripAnnotations(Strip(raw)))

\* the body of the try block raises: no href attribute, too few path
\* segments, or a segment int() rejects
RowRaises(row) ==
    \/ ~row.has_href
    \/ LET parts == Split(StripChars(row.a_href, {"/"}), "/")
       IN  Len(parts) < 2 \/ ~IsIntText(parts[2])

BuildMatch(row, season, wrestler_id, wrestler_name) ==
    [Season         |-> season,
     Date           |-> Strip(row.cells[1]),
     Event          |-> Strip(row.cells[2]),
     WeightClass    |-> Strip(row.cells[3]),
     Result         |-> Strip(row.cells[4]),
     ResultType     |-> Strip(row.cells[5]),
     Score          |-> Strip(row.cells[6]),
     Opponent       |-> CleanOpponentName(Strip(row.a_text)),
     OpponentID     |-> ParseInt(Split(StripChars(row.a_href, {"/"}), "/")[2]),
     OpponentRecord |-> IF row.has_small
                        THEN StripChars(row.small_text, {" ", "(", ")"})
                        ELSE Unlisted,
     OpponentSchool |-> CleanSchool(row.school),
     Wrestler       |-> wrestler_name,
     WrestlerID     |-> wrestler_id]

\* (mutant) the season test is left out
SeasonMatches_Any(season, season_year) == TRUE

\* the season test of the row loop: match["Season"] != str(season_year)
SeasonMatches(season, season_year) == season = StrOfInt(season_year)

\* one <tr> of a match table: the list of the matches it appends (0 or 1)
ParseMatchRow(row, season, wrestler_id, wrestler_name, season_year) ==
    IF row.ncols # MatchColumns THEN <<>>
    ELSE IF ~row.has_a THEN <<>>
    ELSE IF RowRaises(row) THEN <<>>
    ELSE IF ~SeasonMatches(season, season_year) THEN <<>>
    ELSE <<BuildMatch(row, season, wrestler_id, wrestler_name)>>

RECURSIVE ParseMatchRows(_, _, _, _, _)
ParseMatchRows(rows, season, wrestler_id, wrestler_name, season_year) ==
    IF rows = <<>> THEN <<>>
    ELSE ParseMatchRow(Head(rows), season, wrestler_id, wrestler_name,
                       season_year)
         \o ParseMatchRows(Tail(rows), season, wrestler_id, wrestler_name,
                           season_year)

\* h2.text.strip().split(' ')[0]
SeasonOfHeading(h2_text) == Split(Strip(h2_text), " ")[1]

\* one season block: skipped without a heading, a sibling row or a table
ParseSeasonBlock(block, wrestler_id, wrestler_name, season_year) ==
    IF ~block.has_h2 THEN <<>>
    ELSE IF ~block.has_table_div THEN <<>>
    ELSE IF ~block.has_table THEN <<>>
    ELSE ParseMatchRows(block.rows, SeasonOfHeading(block.h2_text),
                        wrestler_id, wrestler_name, season_year)

RECURSIVE ParseSeasonBlocks(_, _, _, _)
ParseSeasonBlocks(blocks, wrestler_id, wrestler_name, season_year) ==
    IF blocks = <<>> THEN <<>>
    ELSE ParseSeasonBlock(Head(blocks), wrestler_id, wrestler_name,
                          season_year)
         \o ParseSeasonBlocks(Tail(blocks), wrestler_id, wrestler_name,
                              season_year)

InSeq(x, s) == \E i \in 1..Len(s) : s[i] = x

\* DataFrame.drop_duplicates(): the first of equal rows is kept
RECURSIVE DropDuplicatesFrom(_, _)
DropDuplicatesFrom(df, kept) ==
    IF df = <<>> THEN kept
    ELSE DropDuplicatesFrom(Tail(df),
             IF InSeq(Head(df), kept) THEN kept ELSE Append(kept, Head(df)))

DropDuplicates(df) == DropDuplicatesFrom(df, <<>>)

\* a cell df.replace("", pd.NA) turns into a missing value
HasMissing(m) == \E f \in TextFields : m[f] = <<>>

\* (mutant) rows with a missing value are kept
DropNA_Keep(df) == df

\* df.replace("", pd.NA); df.dropna()
DropNA(df) == SelectSeq(df, LAMBDA m : ~HasMissing(m))

\* the DataFrame scrape_wrestler_matches returns (a sequence of Match rows)
scrape_wrestler_matches(page, wrestler_id, wrestler_name, season_year) ==
    DropNA(DropDuplicates(
        ParseSeasonBlocks(page, wrestler_id, wrestler_name, season_year)))

\* ------------------------------------------------------------------------
\* Roster Extractor: get_team_roster
\* ------------------------------------------------------------------------

\* re.match(r"#\d+\s+([^,]+),\s*(.+)", raw_name): [matched, last, first].
\* The digits and the comma leave the pattern one way to match: the rank is
\* "#" and every digit after it, group 1 runs to the first comma (giving up
\* one blank of \s+ when the comma follows the blanks at once), and group 2
\* is the rest after the blanks that follow the comma.
RankedNameMatch(raw_name) ==
    LET NoMatch == [matched |-> FALSE, last |-> <<>>, first |-> <<>>]
        n == Len(raw_name)
    IN  IF ~(n >= 2 /\ raw_name[1] = "#" /\ IsDigit(raw_name[2])) THEN NoMatch
        ELSE
        LET d == SkipWhile(raw_name, 2, Digits)
            w == SkipWhile(raw_name, d, Whitespace)
            c == IndexOf(raw_name, ",", d)
            g == IF c > w THEN w ELSE w - 1
            r == SkipWhile(raw_name, c + 1, Whitespace)
        IN  IF w = d \/ c = 0 THEN NoMatch
            ELSE IF c = w /\ w - d < 2 THEN NoMatch
            ELSE IF c = n THEN NoMatch
            ELSE [matched |-> TRUE,
                  last    |-> SubSeq(raw_name, g, c - 1),
                  first   |-> IF r <= n THEN SubSeq(raw_name, r, n)
                              ELSE <<raw_name[n]>>]

\* the display name stored for a roster row whose link text is raw_name
RosterName(raw_name) ==
    LET m == RankedNameMatch(raw_name)
    IN  IF m.matched
        THEN Strip(m.first) \o <<" ">> \o Strip(m.last)
        ELSE raw_name

SeasonSegment == <<"s", "e", "a", "s", "o", "n">>

\* the path segments of the profile link: wrestler_url.strip('/').split('/')
LinkParts(href) == Split(StripChars(href, {"/"}), "/")

\* the position of the wrestler ID among the segments (0-based 3 or 1)
IdIndex(parts) == IF InSeq(SeasonSegment, parts) THEN 4 ELSE 2

\* the try block of a roster row raises: a segment is missing or no integer
RosterRowRaises(row) ==
    LET parts == LinkParts(row.href)
        k == IdIndex(parts)
    IN  Len(parts) < k + 1 \/ ~IsIntText(parts[k])

RosterEntry(row) ==
    LET parts == LinkParts(row.href)
        k == IdIndex(parts)
    IN  [id   |-> ParseInt(parts[k]),
         name |-> RosterName(Strip(row.text)),
         slug |-> parts[k + 1]]

\* cols[1] of a row with a single cell: IndexError outside the try block
RowIndexError(row) == row.ncols = 1

\* the rows after the header, in table order: [raised, roster]
RECURSIVE RosterRows(_, _)
RosterRows(rows, roster) ==
    IF rows = <<>> THEN [raised |-> FALSE, roster |-> roster]
    ELSE LET row == Head(rows)
         IN  IF row.ncols = 0 THEN RosterRows(Tail(rows), roster)
             ELSE IF RowIndexError(row)
                  THEN [raised |-> TRUE, roster |-> <<>>]
             ELSE IF ~row.has_link THEN RosterRows(Tail(rows), roster)
             ELSE IF RosterRowRaises(row) THEN RosterRows(Tail(rows), roster)
             ELSE RosterRows(Tail(rows), Append(roster, RosterEntry(row)))

\* get_team_roster on the fetched profile page: [raised, roster]
get_team_roster(page) ==
    IF ~page.has_table THEN [raised |-> FALSE, roster |-> <<>>]
    ELSE IF ~page.has_tbody THEN [raised |-> TRUE, roster |-> <<>>]
    ELSE IF page.rows = <<>> THEN [raised |-> FALSE, roster |-> <<>>]
    ELSE RosterRows(Tail(page.rows), <<>>)

\* ------------------------------------------------------------------------
\* Aggregation: scrape_team_matches
\* ------------------------------------------------------------------------

\* team_slug.replace("-", " ").title() for the slugs of the model
SchoolTitle(team_slug) ==
    CASE team_slug = "penn-state"       -> "Penn State"
      [] team_slug = "boston-u"         -> "Boston U"
      [] team_slug = "boise-state"      -> "Boise State"
      [] team_slug = "eastern-michigan" -> "Eastern Michigan"
      [] team_slug = "old-dominion"     -> "Old Dominion"
      [] team_slug = "fresno-state"     -> "Fresno State"

\* df["Wrestler School"] = ...: the column is added to every row
StampSchool(df, team_slug) ==
    [i \in 1..Len(df) |->
        df[i] @@ [WrestlerSchool |-> SchoolTitle(team_slug)]]

\* (mutant) the frames are joined last to first
RECURSIVE Concat_Reversed(_)
Concat_Reversed(frames) ==
    IF frames = <<>> THEN <<>>
    ELSE Concat_Reversed(Tail(frames)) \o Head(frames)

\* pd.concat(frames, ignore_index=True): the rows of the frames, in order
RECURSIVE Concat(_)
Concat(frames) ==
    IF frames = <<>> THEN <<>> ELSE Head(frames) \o Concat(Tail(frames))

\* a frame joins all_matches: df is not None and not df.empty
KeepFrame(df) == df # <<>>

NoFault == [kind |-> "none", k |-> 0]

\* The loop over the roster, from its k-th wrestler on.  profile[id] is the
\* page the site serves for a wrestler; fault names the fetch that raises.
\* [raised, all_matches, inputs]: inputs lists the frame of every wrestler
\* fetched, empty ones included.
RECURSIVE TeamLoop(_, _, _, _, _, _, _, _)
TeamLoop(roster, k, profile, team_slug, season_year, fault, all_matches, inputs) ==
    IF k > Len(roster)
    THEN [raised |-> FALSE, all_matches |-> all_matches, inputs |-> inputs]
    ELSE IF fault.kind = "wrestler" /\ fault.k = k
    THEN [raised |-> TRUE, all_matches |-> all_matches, inputs |-> inputs]
    ELSE LET w  == roster[k]
             df == scrape_wrestler_matches(profile[w.id], w.id, w.name,
                                           season_year)
             st == StampSchool(df, team_slug)
         IN  TeamLoop(roster, k + 1, profile, team_slug, season_year, fault,
                      IF KeepFrame(df) THEN Append(all_matches, st)
                      ELSE all_matches,
                      Append(inputs, st))

\* (mutant) no frame was kept and pd.concat([]) raises
NoDataResult_Raises(roster, inputs) ==
    [raised |-> TRUE, none |-> FALSE, df |-> <<>>, wrote |-> FALSE,
     roster |-> roster, inputs |-> inputs]

\* what scrape_team_matches does when no frame was kept: no file, None
NoDataResult(roster, inputs) ==
    [raised |-> FALSE, none |-> TRUE, df |-> <<>>, wrote |-> FALSE,
     roster |-> roster, inputs |-> inputs]

\* an exception leaves scrape_team_matches: nothing is returned
RaisedResult(roster, inputs) ==
    [raised |-> TRUE, none |-> FALSE, df |-> <<>>, wrote |-> FALSE,
     roster |-> roster, inputs |-> inputs]

\* scrape_team_matches on the roster page and the profile pages the site
\* serves: [raised, none, df, wrote, roster, inputs].  wrote says that the
\* team's CSV file was written, with the rows df.
scrape_team_matches(roster_page, profile, team_slug, season_year, fault) ==
    IF fault.kind = "roster" THEN RaisedResult(<<>>, <<>>)
    ELSE
    LET r == get_team_roster(roster_page)
    IN  IF r.raised THEN RaisedResult(<<>>, <<>>)
        ELSE
        LET l == TeamLoop(r.roster, 1, profile, team_slug, season_year,
                          fault, <<>>, <<>>)
        IN  IF l.raised THEN RaisedResult(r.roster, l.inputs)
            ELSE IF l.all_matches = <<>>
                 THEN NoDataResult(r.roster, l.inputs)
            ELSE IF fault.kind = "write"
                 THEN RaisedResult(r.roster, l.inputs)
            ELSE [raised |-> FALSE, none |-> FALSE,
                  df |-> Concat(l.all_matches), wrote |-> TRUE,
                  roster |-> r.roster, inputs |-> l.inputs]

\* ------------------------------------------------------------------------
\* Crawl Orchestrator: scrape_all_d1_teams, its tables
\* ------------------------------------------------------------------------

FirstSeason == 2014

LastSeason == 2026

\* range(2014, 2027)
Seasons == FirstSeason..LastSeason

Team(team_id, team_slug) == [team_id |-> team_id, team_slug |-> team_slug]

\* the teams appended to the live listing
RemovedTeams ==
    <<Team(9, "boston-u"), Team(8, "boise-state"),
      Team(25, "eastern-michigan"), Team(58, "old-dominion"),
      Team(829, "fresno-state")>>

\* activity_map: slug -> the seasons in which the program was in D1
activity_map ==
    [slug \in {"little-rock", "liu", "presbyterian", "cal-baptist",
               "morgan-state", "bellarmine", "boston-u", "boise-state",
               "eastern-michigan", "old-dominion", "fresno-state"} |->
        CASE slug \in {"little-rock", "liu", "presbyterian"} -> 2020..2026
          [] slug = "cal-baptist"      -> 2023..2026
          [] slug = "morgan-state"     -> 2024..2026
          [] slug = "bellarmine"       -> 2025..2026
          [] slug = "boston-u"         -> 2014..2014
          [] slug = "boise-state"      -> 2014..2017
          [] slug = "eastern-michigan" -> 2014..2018
          [] slug = "old-dominion"     -> 2014..2020
          [] slug = "fresno-state"     -> 2018..2021]

\* (mutant) every team of the table is skipped, whatever the season
Inactive_IgnoresSeason(team_slug, season_year) ==
    team_slug \in DOMAIN activity_map

\* the test before "Skipping ... (inactive)"
Inactive(team_slug, season_year) ==
    /\ team_slug \in DOMAIN activity_map
    /\ season_year \notin activity_map[team_slug]

\* get_all_d1_teams: the (ID, slug) pairs of the profile links, as a set
ListedTeams(links) ==
    {Team(links[i].team_id, links[i].team_slug) :
        i \in {j \in 1..Len(links) : links[j].profile}}

\* the orders list(set(teams)) can have
Orderings(S) ==
    {q \in [1..Cardinality(S) -> S] :
        \A i, j \in 1..Cardinality(S) : i # j => q[i] # q[j]}

\* teams += [...]: the crawl list built from a listing order
CrawlList(listed) == listed \o RemovedTeams

\* (mutant) the files are written whether or not anything was collected
HasData_Always(frames) == TRUE

\* the test before each to_csv of the orchestrator: a non-empty list
HasData(frames) == frames # <<>>

\* ------------------------------------------------------------------------
\* State
\* ------------------------------------------------------------------------

VARIABLES
    m_pc,           \* scrape_wrestler_matches: "ready" | "done" | "off"
    m_page,         \* the wrestler's profile page: a sequence of season blocks
    m_wrestler,     \* [id, name]: the wrestler_id and wrestler_name arguments
    m_season_year,  \* the season_year argument
    m_df,           \* the DataFrame returned
    r_pc,           \* get_team_roster: "ready" | "done" | "off"
    r_page,         \* the team's profile page: [has_table, has_tbody, rows]
    r_out,          \* what get_team_roster did: [raised, roster]
    pc,             \* scrape_all_d1_teams: "start" | "season" | "team" |
                    \*   "done" | "aborted" | "off"
    live_links,     \* the team links of the rankings page, in page order
    teams,          \* the crawl list
    season_year,    \* the season of the outer loop (LastSeason + 1: over)
    ti,             \* the position in teams of the inner loop
    season_data,    \* the frames of the season so far
    all_data,       \* the frames of the run so far
    year_files,     \* season -> [written, rows]: "Year Results/<season>_matches.csv"
    full_file,      \* [writes, rows]: "d1_all_match_results.csv"
    team_files,     \* the <<slug, season>> of the "Team Results" files written
    crawl_log,      \* the <<season, ID, slug>> handed to scrape_team_matches
    unit            \* what the inner loop did with its latest team

matchVars == <<m_pc, m_page, m_wrestler, m_season_year, m_df>>

rosterVars == <<r_pc, r_page, r_out>>

crawlVars ==
    <<pc, live_links, teams, season_year, ti, season_data, all_data,
      year_files, full_file, team_files, crawl_log, unit>>

vars == <<matchVars, rosterVars, crawlVars>>

\* the variables of a component that takes no part in a specification
MatchOff ==
    /\ m_pc = "off"
    /\ m_page = <<>>
    /\ m_wrestler = [id |-> 0, name |-> <<>>]
    /\ m_season_year = 0
    /\ m_df = <<>>

RosterOff ==
    /\ r_pc = "off"
    /\ r_page = [has_table |-> FALSE, has_tbody |-> FALSE, rows |-> <<>>]
    /\ r_out = [raised |-> FALSE, roster |-> <<>>]

\* the record of the inner loop's latest iteration
Unit(kind, season, team, fault, res) ==
    [kind |-> kind, season |-> season, team |-> team, fault |-> fault,
     roster |-> res.roster, inputs |-> res.inputs, wrote |-> res.wrote,
     df |-> res.df]

NoUnit ==
    Unit("init", 0, Team(0, ""), NoFault, NoDataResult(<<>>, <<>>))

NoYearFiles == [y \in Seasons |-> [written |-> FALSE, rows |-> <<>>]]

CrawlOff ==
    /\ pc = "off"
    /\ live_links = <<>>
    /\ teams = <<>>
    /\ season_year = 0
    /\ ti = 0
    /\ season_data = <<>>
    /\ all_data = <<>>
    /\ year_files = NoYearFiles
    /\ full_file = [writes |-> 0, rows |-> <<>>]
    /\ team_files = {}
    /\ crawl_log = <<>>
    /\ unit = NoUnit

\* ------------------------------------------------------------------------
\* Inputs of the Match History Extractor
\* ------------------------------------------------------------------------

\* how many times the drawn row is repeated in its match table
MaxCopies == 2

Y2024 == <<"2", "0", "2", "4">>

Y2023 == <<"2", "0", "2", "3">>

SeasonWord == <<"S", "e", "a", "s", "o", "n">>

Headings ==
    {Y2024 \o <<" ">> \o SeasonWord,
     Y2023 \o <<" ">> \o SeasonWord,
     <<" ">> \o Y2024 \o <<" ", " ">> \o SeasonWord \o <<" ">>,
     Y2024,
     Y2024 \o <<"-", "2", "5", " ">> \o SeasonWord,
     SeasonWord \o <<" ">> \o Y2024,
     <<"2", "0", " ", "2", "4">>,
     <<>>}

RequestedSeasons == {2023, 2024}

OpponentTexts ==
    {<<"#", "3", " ", "L", ",", " ", "B">>,
     <<"L", ",", "B">>,
     <<" ", "L", " ">>,
     <<"#", "3">>,
     <<",">>}

\* the <small> record of the opponent cell: [has, text]
OpponentSmalls ==
    {[has |-> FALSE, text |-> <<>>],
     [has |-> TRUE, text |-> <<"(", "1", "-", "0", ")">>],
     [has |-> TRUE, text |-> <<"(", " ", ")">>],
     [has |-> TRUE, text |-> <<>>]}

SchoolTexts ==
    {<<"#", "2", " ", "P", "S", "U">>,
     <<"P", " ", "(", "x", ")">>,
     <<"(", "F", "r", ")">>,
     <<" ">>}

GoodHref == <<"/", "w", "/", "1", "2", "/", "l", "-", "b", "/", "p">>

\* what a cell of the six plain columns can hold when it is blank
BlankTexts == {<<>>, <<" ">>}

\* the six plain cells (Date .. Score), the k-th one replaced by blank
PlainCells(k, blank) ==
    [i \in 1..6 |-> IF i = k THEN blank ELSE <<" ", DigitChar(i), " ">>]

MkRow(ncols, has_a, a_text, has_href, a_href, small, school, cells) ==
    [ncols |-> ncols, has_a |-> has_a, a_text |-> a_text,
     has_href |-> has_href, a_href |-> a_href,
     has_small |-> small.has, small_text |-> small.text,
     school |-> school, cells |-> cells]

\* the row every field of which is present
GoodRow ==
    MkRow(MatchColumns, TRUE, <<"#", "3", " ", "L", ",", " ", "B">>, TRUE,
          GoodHref, [has |-> TRUE, text |-> <<"(", "1", "-", "0", ")">>],
          <<"#", "2", " ", "P", "S", "U">>, PlainCells(0, <<>>))

\* rows with nine cells and a usable opponent link, any cell text
LinkedRows ==
    {MkRow(MatchColumns, TRUE, a, TRUE, GoodHref, sm, sc, PlainCells(k, b)) :
        a \in OpponentTexts, sm \in OpponentSmalls, sc \in SchoolTexts,
        k \in 0..6, b \in BlankTexts}

\* rows the row loop skips or whose parse raises
BrokenRows ==
    {[GoodRow EXCEPT !.ncols = MatchColumns - 1],
     [GoodRow EXCEPT !.ncols = MatchColumns + 1],
     [GoodRow EXCEPT !.has_a = FALSE],
     [GoodRow EXCEPT !.has_href = FALSE],
     [GoodRow EXCEPT !.a_href = <<"/", "w", "/">>],
     [GoodRow EXCEPT !.a_href = <<"/", "w", "/", "x", "/", "p">>]}

MatchRows == LinkedRows \cup BrokenRows

Name_CS == <<"C", " ", "S">>

WrestlerArgs == {[id |-> 7, name |-> Name_CS], [id |-> 7, name |-> <<>>]}

MkBlock(has_h2, h2_text, has_table_div, has_table, rows) ==
    [has_h2 |-> has_h2, h2_text |-> h2_text, has_table_div |-> has_table_div,
     has_table |-> has_table, rows |-> rows]

\* the shapes a season block takes: [h2, div, table]
BlockShapes ==
    {<<TRUE, TRUE, TRUE>>, <<FALSE, TRUE, TRUE>>, <<TRUE, FALSE, FALSE>>,
     <<TRUE, TRUE, FALSE>>}

\* a further season block, of the season before, as on a real profile page
OlderBlock ==
    MkBlock(TRUE, Y2023 \o <<" ">> \o SeasonWord, TRUE, TRUE, <<GoodRow>>)

Repeat(x, n) == [i \in 1..n |-> x]

\* the pages drawn: a block of one row repeated up to copies times, alone or
\* before an older block; and blocks of every shape
MatchPages(copies) ==
    {<<MkBlock(TRUE, h, TRUE, TRUE, Repeat(r, n))>> \o tail :
        h \in Headings, r \in MatchRows,
        n \in 1..copies, tail \in {<<>>, <<OlderBlock>>}}
    \cup
    {<<MkBlock(sh[1], h, sh[2], sh[3], <<GoodRow>>)>> :
        sh \in BlockShapes, h \in Headings}

\* ------------------------------------------------------------------------
\* Specification of the Match History Extractor alone
\* ------------------------------------------------------------------------

MatchInit ==
    /\ m_pc = "ready"
    /\ m_page \in MatchPages(MaxCopies)
    /\ m_wrestler \in WrestlerArgs
    /\ m_season_year \in RequestedSeasons
    /\ m_df = <<>>
    /\ RosterOff
    /\ CrawlOff

ExtractMatches ==
    /\ m_pc = "ready"
    /\ m_df' = scrape_wrestler_matches(m_page, m_wrestler.id, m_wrestler.name,
                                       m_season_year)
    /\ m_pc' = "done"
    /\ UNCHANGED <<m_page, m_wrestler, m_season_year>>
    /\ UNCHANGED <<rosterVars, crawlVars>>

MatchNext == ExtractMatches

MatchSpec == MatchInit /\ [][MatchNext]_vars

\* ------------------------------------------------------------------------
\* Inputs of the Roster Extractor
\* ------------------------------------------------------------------------

NamePrefixes ==
    {<<>>, <<"#", "3", " ">>, <<"#", "1", "3", " ">>, <<"#", "3">>,
     <<"#", "3", " ", " ">>, <<"#", " ">>}

LastNames == {<<"S">>, <<"V", " ", "d">>, <<>>}

NameSeparators == {<<",", " ">>, <<",">>, <<" ">>, <<>>}

FirstNames == {<<"C">>, <<"C", " ", "J">>, <<>>}

Starocci == <<"S", "t", "a", "r", "o", "c", "c", "i">>

Carter == <<"C", "a", "r", "t", "e", "r">>

\* the link texts of a roster row
NameTexts ==
    {p \o l \o sp \o f :
        p \in NamePrefixes, l \in LastNames, sp \in NameSeparators,
        f \in FirstNames}
    \cup {<<"#", "3", " ">> \o Starocci \o <<",", " ">> \o Carter,
          <<" ">> \o Starocci \o <<",", " ">> \o Carter \o <<" ">>}

MkRosterRow(ncols, has_link, href, text) ==
    [ncols |-> ncols, has_link |-> has_link, href |-> href, text |-> text]

\* the number of cells of an ordinary roster row
RosterColumns == 5

\* /wrestler/<id>/<slug>/profile, the link of the current season
CurrentLink(id) == <<"/", "w", "/", DigitChar(id), "/", "x", "/", "p">>

\* /season/<year>/wrestler/<id>/<slug>/profile, the link of a past season
PastLink(id) ==
    <<"/">> \o SeasonSegment \o <<"/">> \o Y2023
    \o <<"/", "w", "/", DigitChar(id), "/", "y", "/", "p">>

HeaderRow == MkRosterRow(0, FALSE, <<>>, <<>>)

\* the row whose link text is drawn; its wrestler ID is 7
SubjectRows ==
    {MkRosterRow(RosterColumns, TRUE, CurrentLink(7), t) : t \in NameTexts}

\* the rows that stand beside it; a well-formed one has wrestler ID 8
NeighbourRows ==
    {MkRosterRow(RosterColumns, TRUE, CurrentLink(8), <<"#", "1", " ", "L", ",", " ", "B">>),
     MkRosterRow(RosterColumns, TRUE, PastLink(8), <<"L", ",", " ", "B">>),
     MkRosterRow(0, FALSE, <<>>, <<>>),
     MkRosterRow(1, FALSE, <<>>, <<>>),
     MkRosterRow(RosterColumns, FALSE, <<>>, <<"T", "o", "t", "a", "l">>),
     MkRosterRow(RosterColumns, TRUE, <<"/", "w">>, <<"L", ",", " ", "B">>),
     MkRosterRow(RosterColumns, TRUE, <<"/", "w", "/", "x", "/", "y">>, <<"L", ",", " ", "B">>),
     MkRosterRow(RosterColumns, TRUE, <<"/">> \o SeasonSegment \o <<"/", "w">>, <<"L", ",", " ", "B">>)}

MkRosterPage(has_table, has_tbody, rows) ==
    [has_table |-> has_table, has_tbody |-> has_tbody, rows |-> rows]

RosterPages ==
    {MkRosterPage(TRUE, TRUE, <<HeaderRow>> \o rows) :
        rows \in {<<a>> : a \in SubjectRows}
                 \cup {<<a, b>> : a \in SubjectRows, b \in NeighbourRows}
                 \cup {<<b, a>> : a \in SubjectRows, b \in NeighbourRows}}
    \cup {MkRosterPage(FALSE, FALSE, <<>>),
          MkRosterPage(TRUE, FALSE, <<>>),
          MkRosterPage(TRUE, TRUE, <<>>),
          MkRosterPage(TRUE, TRUE, <<HeaderRow>>)}

\* ------------------------------------------------------------------------
\* Specification of the Roster Extractor alone
\* ------------------------------------------------------------------------

RosterInit ==
    /\ r_pc = "ready"
    /\ r_page \in RosterPages
    /\ r_out = [raised |-> FALSE, roster |-> <<>>]
    /\ MatchOff
    /\ CrawlOff

ExtractRoster ==
    /\ r_pc = "ready"
    /\ r_out' = get_team_roster(r_page)
    /\ r_pc' = "done"
    /\ UNCHANGED r_page
    /\ UNCHANGED <<matchVars, crawlVars>>

RosterNext == ExtractRoster

RosterSpec == RosterInit /\ [][RosterNext]_vars

\* ------------------------------------------------------------------------
\* The site the crawl runs against
\* ------------------------------------------------------------------------

\* how many team links the rankings page holds at most
MaxLinks == 2

\* the heading of the season block of year y: "<y> Season"
YearHeading(y) ==
    <<"2", "0", DigitChar((y \div 10) % 10), DigitChar(y % 10), " ">>
    \o SeasonWord

\* well-formed match rows that differ in their date
DatedRow(i) == [GoodRow EXCEPT !.cells[1] = <<DigitChar(i)>>]

\* rows that lose a field to normalization: a blank plain cell (Date ..
\* Score), a link text that is only a rank, an empty record, a school that
\* is only an annotation
BlankCellRow(k) == [GoodRow EXCEPT !.cells[k] = <<" ">>]

NoOpponentRow == [GoodRow EXCEPT !.a_text = <<"#", "3">>]

NoRecordRow == [GoodRow EXCEPT !.small_text = <<"(", ")">>]

NoSchoolRow == [GoodRow EXCEPT !.school = <<"(", "F", "r", ")">>]

IncompleteRows ==
    [k \in 1..6 |-> BlankCellRow(k)]
    \o <<NoOpponentRow, NoRecordRow, NoSchoolRow>>

SeasonBlock(y, rows) == MkBlock(TRUE, YearHeading(y), TRUE, TRUE, rows)

\* wrestler ID -> the profile page the site serves
SiteProfile ==
    [id \in 1..8 |->
        CASE id = 1 -> <<SeasonBlock(2024, [i \in 1..5 |-> DatedRow(i)]),
                         SeasonBlock(2023, <<DatedRow(1)>>)>>
          [] id = 2 -> <<SeasonBlock(2024, IncompleteRows),
                         SeasonBlock(2023, <<NoSchoolRow>>)>>
          [] id = 3 -> <<SeasonBlock(2024, <<DatedRow(1), BlankCellRow(6),
                                             DatedRow(2), DatedRow(2),
                                             DatedRow(3)>>)>>
          [] id = 4 -> <<SeasonBlock(2025, <<DatedRow(1)>>),
                         SeasonBlock(2024, <<DatedRow(2)>>)>>
          [] id = 5 -> <<SeasonBlock(2021, <<DatedRow(1)>>),
                         SeasonBlock(2014, <<DatedRow(2)>>)>>
          [] id = 6 -> <<SeasonBlock(2018, <<DatedRow(1)>>),
                         SeasonBlock(2017, <<DatedRow(2)>>)>>
          [] id = 7 -> <<SeasonBlock(2015, <<DatedRow(1)>>)>>
          [] id = 8 -> <<>>]

RankedRow(id, rank, lastname, firstname) ==
    MkRosterRow(RosterColumns, TRUE, CurrentLink(id),
                <<"#", rank, " ", lastname, ",", " ", firstname>>)

\* the roster row of a wrestler; the link of wrestler 7 has no text
SiteRosterRow(id) ==
    IF id = 7 THEN MkRosterRow(RosterColumns, TRUE, CurrentLink(id), <<>>)
    ELSE RankedRow(id, "1", "L", "B")

RosterOf(ids) ==
    MkRosterPage(TRUE, TRUE,
        <<HeaderRow>> \o [i \in 1..Len(ids) |-> SiteRosterRow(ids[i])])

\* (slug, season) -> the team profile page the site serves
SiteRoster(team_slug, year) ==
    CASE team_slug = "penn-state" ->
            IF year >= 2020 THEN RosterOf(<<1, 2, 3>>) ELSE RosterOf(<<2>>)
      [] team_slug = "old-dominion" -> RosterOf(<<5, 4>>)
      [] team_slug = "fresno-state" -> RosterOf(<<6>>)
      [] team_slug = "boise-state"  -> RosterOf(<<7, 8>>)
      [] team_slug = "boston-u"     -> MkRosterPage(FALSE, FALSE, <<>>)
      [] team_slug = "eastern-michigan" ->
            MkRosterPage(TRUE, TRUE,
                <<HeaderRow, SiteRosterRow(8),
                  MkRosterRow(1, FALSE, <<>>, <<>>)>>)

\* the team links the rankings page can hold; a link without "/profile"
\* is not a profile link
LiveLinks ==
    {[team_id |-> 60, team_slug |-> "penn-state", profile |-> TRUE],
     [team_id |-> 60, team_slug |-> "penn-state", profile |-> FALSE],
     [team_id |-> 58, team_slug |-> "old-dominion", profile |-> TRUE]}

SeqsUpTo(S, n) == UNION {[1..k -> S] : k \in 0..n}

\* ------------------------------------------------------------------------
\* Specification of the crawl
\* ------------------------------------------------------------------------

Init ==
    /\ pc = "start"
    /\ live_links \in SeqsUpTo(LiveLinks, MaxLinks)
    /\ teams = <<>>
    /\ season_year = FirstSeason
    /\ ti = 0
    /\ season_data = <<>>
    /\ all_data = <<>>
    /\ year_files = NoYearFiles
    /\ full_file = [writes |-> 0, rows |-> <<>>]
    /\ team_files = {}
    /\ crawl_log = <<>>
    /\ unit = NoUnit
    /\ MatchOff
    /\ RosterOff

\* all_data = []; teams = get_all_d1_teams(page); teams += [...]
\* (the parsed rankings page is local to get_all_d1_teams)
GetTeams ==
    /\ pc = "start"
    /\ \E listed \in Orderings(ListedTeams(live_links)) :
          teams' = CrawlList(listed)
    /\ live_links' = <<>>
    /\ pc' = "season"
    /\ UNCHANGED <<season_year, ti, season_data, all_data, year_files,
                   full_file, team_files, crawl_log, unit>>
    /\ UNCHANGED <<matchVars, rosterVars>>

\* for season_year in range(2014, 2027): season_data = []
StartSeason ==
    /\ pc = "season"
    /\ season_year <= LastSeason
    /\ season_data' = <<>>
    /\ ti' = 1
    /\ pc' = "team"
    /\ UNCHANGED <<live_links, teams, season_year, all_data, year_files,
                   full_file, team_files, crawl_log, unit>>
    /\ UNCHANGED <<matchVars, rosterVars>>

\* the team is inactive in the season: continue
SkipTeam ==
    /\ pc = "team"
    /\ ti <= Len(teams)
    /\ Inactive(teams[ti].team_slug, season_year)
    /\ unit' = Unit("skip", season_year, teams[ti], NoFault,
                    NoDataResult(<<>>, <<>>))
    /\ ti' = ti + 1
    /\ UNCHANGED <<pc, live_links, teams, season_year, season_data, all_data,
                   year_files, full_file, team_files, crawl_log>>
    /\ UNCHANGED <<matchVars, rosterVars>>

\* the positions a wrestler has on the rosters of the site
RosterPositions == 1..3

\* the fetches and the write of one team that can raise
AllFaults ==
    {NoFault, [kind |-> "roster", k |-> 0], [kind |-> "write", k |-> 0]}
    \cup {[kind |-> "wrestler", k |-> k] : k \in RosterPositions}

SiteSlugs ==
    {"penn-state", "boston-u", "boise-state", "eastern-michigan",
     "old-dominion", "fresno-state"}

\* what scrape_team_matches does against the site, for a team, a season
\* and a raising fetch (the site serves the same pages throughout a run)
TeamOutcome(slug, year, fault) ==
    scrape_team_matches(SiteRoster(slug, year), SiteProfile, slug, year,
                        fault)

\* the faults that can strike the team: a fetch it makes, a write it makes
Faults(base) ==
    {f \in AllFaults :
        \/ f.kind \in {"none", "roster"}
        \/ f.kind = "wrestler" /\ f.k <= Len(base.roster)
        \/ f.kind = "write" /\ base.wrote}

\* (mutant) what a team had fetched before it raised is kept
Collected_KeepsPartial(frames, res) ==
    IF res.raised
    THEN (IF Concat(res.inputs) # <<>>
          THEN Append(frames, Concat(res.inputs)) ELSE frames)
    ELSE IF ~res.none /\ res.df # <<>> THEN Append(frames, res.df)
    ELSE frames

\* the frames list after "if df is not None and not df.empty: append(df)";
\* an exception is caught before anything is appended
Collected(frames, res) ==
    IF ~res.raised /\ ~res.none /\ res.df # <<>>
    THEN Append(frames, res.df)
    ELSE frames

UnitKind(res) ==
    IF res.raised THEN "raised" ELSE IF res.none THEN "nodata" ELSE "data"

\* try: df = scrape_team_matches(...) ... except Exception
ScrapeTeam ==
    /\ pc = "team"
    /\ ti <= Len(teams)
    /\ ~Inactive(teams[ti].team_slug, season_year)
    /\ LET t    == teams[ti]
           base == TeamOutcome(t.team_slug, season_year, NoFault)
       IN  \E fault \in Faults(base) :
             LET res == TeamOutcome(t.team_slug, season_year, fault)
             IN  /\ season_data' = Collected(season_data, res)
                 /\ all_data' = Collected(all_data, res)
                 /\ team_files' =
                        IF res.wrote
                        THEN team_files \cup {<<t.team_slug, season_year>>}
                        ELSE team_files
                 /\ crawl_log' =
                        Append(crawl_log,
                               <<season_year, t.team_id, t.team_slug>>)
                 /\ unit' = Unit(UnitKind(res), season_year, t, fault, res)
    /\ ti' = ti + 1
    /\ UNCHANGED <<pc, live_links, teams, season_year, year_files, full_file>>
    /\ UNCHANGED <<matchVars, rosterVars>>

\* after the inner loop: if season_data: concat and write the season's file
EndSeason ==
    /\ pc = "team"
    /\ ti > Len(teams)
    /\ year_files' =
          IF HasData(season_data)
          THEN [year_files EXCEPT ![season_year] =
                   [written |-> TRUE, rows |-> Concat(season_data)]]
          ELSE year_files
    /\ season_year' = season_year + 1
    /\ pc' = "season"
    /\ UNCHANGED <<live_links, teams, ti, season_data, all_data, full_file,
                   team_files, crawl_log, unit>>
    /\ UNCHANGED <<matchVars, rosterVars>>

\* after the outer loop: if all_data: concat and write the full history
FinishRun ==
    /\ pc = "season"
    /\ season_year > LastSeason
    /\ full_file' =
          IF HasData(all_data)
          THEN [writes |-> full_file.writes + 1, rows |-> Concat(all_data)]
          ELSE full_file
    /\ pc' = "done"
    /\ UNCHANGED <<live_links, teams, season_year, ti, season_data, all_data,
                   year_files, team_files, crawl_log, unit>>
    /\ UNCHANGED <<matchVars, rosterVars>>

\* a to_csv of the orchestrator raises: no handler, the run ends
WriteFails ==
    /\ \/ pc = "team" /\ ti > Len(teams) /\ HasData(season_data)
       \/ pc = "season" /\ season_year > LastSeason /\ HasData(all_data)
    /\ pc' = "aborted"
    /\ UNCHANGED <<live_links, teams, season_year, ti, season_data, all_data,
                   year_files, full_file, team_files, crawl_log, unit>>
    /\ UNCHANGED <<matchVars, rosterVars>>

Next ==
    \/ GetTeams
    \/ StartSeason
    \/ SkipTeam
    \/ ScrapeTeam
    \/ EndSeason
    \/ FinishRun
    \/ WriteFails

Spec == Init /\ [][Next]_vars

\* ------------------------------------------------------------------------
\* Properties
\* ------------------------------------------------------------------------

\* the rows the run has put in a file or holds in an accumulator
AllFrames ==
    all_data \o season_data \o <<full_file.rows, unit.df>>
    \o [i \in 1..(LastSeason - FirstSeason + 1) |->
           year_files[FirstSeason + i - 1].rows]

\* the slug whose title the row carries was in D1 in the row's season
RowInWindow(row) ==
    \A slug \in SiteSlugs :
        (SchoolTitle(slug) = row.WrestlerSchool /\ slug \in DOMAIN activity_map)
            => ParseInt(row.Season) \in activity_map[slug]

\* the seasons whose inner loop has run to its end
SeasonsOver == {y \in Seasons : y < season_year}

\* C1: a team that is a key of the activity map is never handed to
\* scrape_team_matches in a season outside its allowed set, and no row of it
\* for such a season is in any accumulator or file; a team that is no key of
\* the map is handed to scrape_team_matches in every season.
C1_ActivityWindow ==
    /\ unit.kind = "skip" =>
          /\ unit.team.team_slug \in DOMAIN activity_map
          /\ unit.season \notin activity_map[unit.team.team_slug]
    /\ unit.kind \in {"raised", "nodata", "data"} =>
          (unit.team.team_slug \in DOMAIN activity_map
              => unit.season \in activity_map[unit.team.team_slug])
    /\ \A i \in 1..Len(crawl_log) :
          crawl_log[i][3] \in DOMAIN activity_map
              => crawl_log[i][1] \in activity_map[crawl_log[i][3]]
    /\ \A i \in 1..Len(AllFrames) : \A j \in 1..Len(AllFrames[i]) :
          RowInWindow(AllFrames[i][j])
    /\ \A y \in Seasons : \A j \in 1..Len(year_files[y].rows) :
          ParseInt(year_files[y].rows[j].Season) = y
    /\ \A y \in SeasonsOver : \A i \in 1..Len(teams) :
          teams[i].team_slug \notin DOMAIN activity_map
              => \E k \in 1..Len(crawl_log) :
                    crawl_log[k] = <<y, teams[i].team_id, teams[i].team_slug>>

\* old-dominion (2014..2020) is skipped in 2021, the season of a block of
\* its wrestler's page, after its 2014 rows were written
C1_Witness ==
    /\ unit.kind = "skip"
    /\ unit.team.team_slug = "old-dominion"
    /\ unit.season = 2021
    /\ year_files[2014].written
    /\ \E j \in 1..Len(year_files[2014].rows) :
          year_files[2014].rows[j].WrestlerSchool = "Old Dominion"

\* the inner loop has just handled a team, and its handler caught an exception
RaisedStep ==
    /\ pc = "team"
    /\ ti' = ti + 1
    /\ unit'.kind = "raised"

\* the teams of a season that is over were each skipped or scraped
EveryTeamHandled ==
    \A y \in SeasonsOver : \A i \in 1..Len(teams) :
        \/ /\ teams[i].team_slug \in DOMAIN activity_map
           /\ y \notin activity_map[teams[i].team_slug]
        \/ \E k \in 1..Len(crawl_log) :
              crawl_log[k] = <<y, teams[i].team_id, teams[i].team_slug>>

\* C2: an exception raised inside one team's processing (roster fetch, a
\* wrestler's fetch, the team file's write) leaves season_data and all_data
\* as they were and the loop at the next team of the same season; every team
\* of every season that is over was handled, whatever raised before it.
C2_TeamFailureIsolated ==
    /\ [][RaisedStep =>
            /\ season_data' = season_data
            /\ all_data' = all_data
            /\ team_files' = team_files
            /\ year_files' = year_files
            /\ full_file' = full_file
            /\ pc' = "team"
            /\ season_year' = season_year
            /\ teams' = teams]_vars
    /\ [](EveryTeamHandled)
    /\ []((pc = "done") => season_year = LastSeason + 1)

\* the write of a team's file raised after an earlier team of the season had
\* contributed: its frame is still there and the loop is at the next team
C2_Witness ==
    /\ pc = "team"
    /\ unit.kind = "raised"
    /\ unit.fault.kind = "write"
    /\ season_data # <<>>
    /\ ti <= Len(teams)

\* the frames of the other wrestlers of the roster, had nothing raised
OtherFrames(u) ==
    LET whole == TeamOutcome(u.team.team_slug, u.season, NoFault).inputs
    IN  SelectSeq([i \in 1..Len(whole) |->
                      IF i = u.fault.k THEN <<>> ELSE whole[i]],
                  LAMBDA f : f # <<>>)

\* C3: when one wrestler's match extraction raises, the matches of the other
\* wrestlers of the roster are still collected, aggregated and persisted for
\* the team.
C3_IndividualFailureIsolated ==
    (unit.fault.kind = "wrestler" /\ OtherFrames(unit) # <<>>) =>
        /\ unit.wrote
        /\ <<unit.team.team_slug, unit.season>> \in team_files
        /\ season_data # <<>>
        /\ season_data[Len(season_data)] = unit.df
        /\ \A i \in 1..Len(OtherFrames(unit)) :
              \A j \in 1..Len(OtherFrames(unit)[i]) :
                 InSeq(OtherFrames(unit)[i][j], unit.df)

\* the rows of the season files written up to season y, in season order
RECURSIVE YearRowsUpTo(_)
YearRowsUpTo(y) ==
    IF y < FirstSeason THEN <<>>
    ELSE YearRowsUpTo(y - 1)
         \o (IF year_files[y].written THEN year_files[y].rows ELSE <<>>)

\* C4: the full-history file is written at most once, only after the loop
\* over the seasons 2014..2026 has ended; at the end of the run it has been
\* written if and only if a match was collected; its rows are those of the
\* season files written, in ascending season order.
C4_FullHistory ==
    /\ full_file.writes <= 1
    /\ full_file.writes = 1 =>
          /\ pc = "done"
          /\ season_year = LastSeason + 1
          /\ full_file.rows = YearRowsUpTo(LastSeason)
          /\ full_file.rows # <<>>
    /\ pc = "done" =>
          /\ full_file.writes = 1 <=> (\E y \in Seasons : year_files[y].written)
          /\ full_file.writes = 1 <=>
                (\E i \in 1..Len(all_data) : Len(all_data[i]) > 0)
          /\ full_file.writes = 1 <=> (team_files # {})

\* the run ended with the full history written from two season files
C4_Witness ==
    /\ pc = "done"
    /\ full_file.writes = 1
    /\ year_files[2014].written
    /\ year_files[2018].written
    /\ Len(full_file.rows) =
          Len(year_files[2014].rows) + Len(year_files[2018].rows)

\* C5: the crawl list holds each (ID, slug) pair at most once, so that no
\* team is handed to scrape_team_matches twice for one season.
C5_CrawlListDistinct ==
    /\ \A i, j \in 1..Len(teams) : i # j => teams[i] # teams[j]
    /\ \A i, j \in 1..Len(crawl_log) : i # j => crawl_log[i] # crawl_log[j]

\* the headings that name a requested season
HeadingsFor(year) ==
    IF year = 2024
    THEN {Y2024 \o <<" ">> \o SeasonWord,
          <<" ">> \o Y2024 \o <<" ", " ">> \o SeasonWord \o <<" ">>,
          Y2024}
    ELSE {Y2023 \o <<" ">> \o SeasonWord}

YearText(year) == IF year = 2024 THEN Y2024 ELSE Y2023

\* rows with nine cells, a usable link and text in every cell
CompleteRows ==
    {MkRow(MatchColumns, TRUE, a, TRUE, GoodHref, sm, sc, PlainCells(0, <<>>)) :
        a \in {<<"#", "3", " ", "L", ",", " ", "B">>, <<"L", ",", "B">>,
               <<" ", "L", " ">>},
        sm \in {[has |-> FALSE, text |-> <<>>],
                [has |-> TRUE, text |-> <<"(", "1", "-", "0", ")">>]},
        sc \in {<<"#", "2", " ", "P", "S", "U">>, <<"P", " ", "(", "x", ")">>}}

\* C6: every Match scrape_wrestler_matches returns carries the requested
\* season; a page with no block headed by that season yields nothing; the
\* block "2024 Season" with one complete row yields one Match of season
\* "2024" when 2024 is requested and none when 2023 is.
C6_SeasonFilter ==
    m_pc = "done" =>
        /\ \A i \in 1..Len(m_df) : m_df[i].Season = YearText(m_season_year)
        /\ (\A b \in 1..Len(m_page) :
               m_page[b].h2_text \notin HeadingsFor(m_season_year))
              => m_df = <<>>
        /\ \A r \in CompleteRows :
              (/\ m_page = <<MkBlock(TRUE, Y2024 \o <<" ">> \o SeasonWord,
                                     TRUE, TRUE, <<r>>)>>
               /\ m_wrestler.name # <<>>)
              => /\ m_season_year = 2024 =>
                       (Len(m_df) = 1 /\ m_df[1].Season = Y2024)
                 /\ m_season_year = 2023 => m_df = <<>>

\* 2024 was requested of a page with a 2024 block and a 2023 block of one
\* complete row each: the 2024 row alone is returned
C6_Witness ==
    /\ m_pc = "done"
    /\ m_season_year = 2024
    /\ m_page = <<MkBlock(TRUE, Y2024 \o <<" ">> \o SeasonWord, TRUE, TRUE,
                          <<GoodRow>>), OlderBlock>>
    /\ Len(m_df) = 1
    /\ m_df[1].Season = Y2024

\* the columns of a persisted Match
AllFields == TextFields \cup {"OpponentID", "WrestlerID", "WrestlerSchool"}

\* a row with every column, none of them the empty string
CompleteMatch(row) ==
    /\ DOMAIN row = AllFields
    /\ \A f \in TextFields : row[f] # <<>>
    /\ row.WrestlerSchool # ""

\* C7: no row of a team file, a season file or the full history (nor of a
\* frame on its way there) has an empty string in a field or lacks a field:
\* a row that normalization leaves with an empty field is dropped whole.
C7_NoEmptyField ==
    /\ \A i \in 1..Len(AllFrames) : \A j \in 1..Len(AllFrames[i]) :
          CompleteMatch(AllFrames[i][j])
    /\ \A i \in 1..Len(unit.inputs) : \A j \in 1..Len(unit.inputs[i]) :
          CompleteMatch(unit.inputs[i][j])

\* penn-state 2024 was written: the nine incomplete rows of its second
\* wrestler and the incomplete row of its third are in no frame
C7_Witness ==
    /\ unit.kind = "data"
    /\ unit.wrote
    /\ unit.team.team_slug = "penn-state"
    /\ unit.season = 2024
    /\ Len(unit.roster) = 3
    /\ unit.inputs[2] = <<>>
    /\ Len(unit.inputs[3]) = 3
    /\ <<"penn-state", 2024>> \in team_files

\* the number of rows of the first j frames
RECURSIVE SizeUpTo(_, _)
SizeUpTo(frames, j) ==
    IF j = 0 THEN 0 ELSE SizeUpTo(frames, j - 1) + Len(frames[j])

\* rows holds the rows of the frames, frame after frame, each in its order
IsConcatOf(rows, frames) ==
    /\ Len(rows) = SizeUpTo(frames, Len(frames))
    /\ \A j \in 1..Len(frames) : \A b \in 1..Len(frames[j]) :
          rows[SizeUpTo(frames, j - 1) + b] = frames[j][b]

\* C8: the frame of a team is the rows of its wrestlers' frames in roster
\* order, the file of a season the rows of its teams' frames in crawl order,
\* the full history the rows of all frames in the order collected: nothing
\* added, dropped or re-sorted, the size the sum of the sizes.
C8_OrderPreserved ==
    /\ unit.kind = "data" => IsConcatOf(unit.df, unit.inputs)
    /\ (pc = "season" /\ season_year > FirstSeason) =>
          /\ year_files[season_year - 1].written =>
                IsConcatOf(year_files[season_year - 1].rows, season_data)
          /\ ~year_files[season_year - 1].written => season_data = <<>>
    /\ (pc = "done" /\ full_file.writes = 1) =>
          IsConcatOf(full_file.rows, all_data)

\* frames of 5, 0 and 3 rows gave a team frame of 8 rows, the 5 before the 3
C8_Witness ==
    /\ unit.kind = "data"
    /\ Len(unit.inputs) = 3
    /\ Len(unit.inputs[1]) = 5
    /\ Len(unit.inputs[2]) = 0
    /\ Len(unit.inputs[3]) = 3
    /\ Len(unit.df) = 8
    /\ SubSeq(unit.df, 1, 5) = unit.inputs[1]
    /\ SubSeq(unit.df, 6, 8) = unit.inputs[3]

\* the inner loop has just handled a team that had no match data
NoDataStep ==
    /\ pc = "team"
    /\ ti' = ti + 1
    /\ unit'.kind = "nodata"

\* nothing raised for the latest team and none of its wrestlers had a row
YieldedNothing ==
    /\ unit.kind \in {"raised", "nodata", "data"}
    /\ unit.fault.kind = "none"
    /\ ~get_team_roster(SiteRoster(unit.team.team_slug, unit.season)).raised
    /\ Len(unit.inputs) = Len(unit.roster)
    /\ \A i \in 1..Len(unit.inputs) : unit.inputs[i] = <<>>

\* C9: a team with an empty roster, or whose wrestlers all have empty
\* frames, makes scrape_team_matches write no file and return None without
\* raising; the orchestrator then leaves season_data and all_data as they
\* were and goes on to the next team.
C9_NoDataNoFile ==
    /\ [](YieldedNothing => unit.kind = "nodata")
    /\ [](unit.kind = "nodata" =>
            /\ ~unit.wrote
            /\ unit.df = <<>>
            /\ <<unit.team.team_slug, unit.season>> \notin team_files
            /\ \A i \in 1..Len(unit.inputs) : unit.inputs[i] = <<>>)
    /\ [][NoDataStep =>
            /\ season_data' = season_data
            /\ all_data' = all_data
            /\ team_files' = team_files
            /\ year_files' = year_files
            /\ pc' = "team"
            /\ season_year' = season_year
            /\ teams' = teams]_vars

\* boston-u has no roster table: no file, and the loop is at the next team
C9_Witness ==
    /\ pc = "team"
    /\ unit.kind = "nodata"
    /\ unit.team.team_slug = "boston-u"
    /\ unit.roster = <<>>
    /\ team_files = {}
    /\ ti <= Len(teams)
    /\ ~Inactive(teams[ti].team_slug, season_year)

RankTokens == {<<>>, <<"#", "3", " ">>, <<"#", "1", "3", " ">>}

\* the roster entry of the drawn row (wrestler 7) has this name
SubjectNamed(name) ==
    \E i \in 1..Len(r_out.roster) :
        r_out.roster[i].id = 7 /\ r_out.roster[i].name = name

\* the link texts of the drawn row, blanks around them removed
SubjectTexts ==
    {Strip(r_page.rows[i].text) :
        i \in {j \in 2..Len(r_page.rows) :
                  r_page.rows[j].has_link
                  /\ r_page.rows[j].href = CurrentLink(7)}}

\* C10: a roster row whose name is "#rank Last, First" or "Last, First" gets
\* the display name "First Last", the rank removed; a name without a comma
\* is returned unchanged.
C10_DisplayName ==
    (r_pc = "done" /\ ~r_out.raised) =>
        \A t \in SubjectTexts :
            /\ \A rank \in RankTokens :
               \A l \in {<<"S">>, <<"V", " ", "d">>, Starocci} :
               \A f \in {<<"C">>, <<"C", " ", "J">>, Carter} :
                  t = rank \o l \o <<",", " ">> \o f
                     => SubjectNamed(f \o <<" ">> \o l)
            /\ ~Contains(t, ",") => SubjectNamed(t)

\* a row with a name cell, a profile link in it, and a link that parses
WellFormedRow(row) ==
    /\ row.ncols >= 2
    /\ row.has_link
    /\ ~RosterRowRaises(row)

\* C11: no single roster row makes get_team_roster fail: whatever the
\* shape of a row after the header (no cells, a single cell, no profile
\* link, a link with too few segments or a non-numeric ID), it is skipped,
\* and every well-formed row of the table is returned, in table order.
C11_NoRowIsFatal ==
    (r_pc = "done" /\ r_page.has_table /\ r_page.has_tbody
     /\ r_page.rows # <<>>) =>
        LET good == SelectSeq(Tail(r_page.rows), WellFormedRow)
        IN  /\ ~r_out.raised
            /\ Len(r_out.roster) = Len(good)
            /\ \A i \in 1..Len(good) : r_out.roster[i] = RosterEntry(good[i])

====
